---------------------------- MODULE Spec2Model ----------------------------
(***************************************************************************)
(* Model of the Brave search core of mcp-brave (src/src/domain/brave.ts):  *)
(* the two-window rate limiter, the query sanitizer, the result            *)
(* normalizer and performWebSearch with its provider call; and of the      *)
(* session map of the /mcp endpoint (src/src/index.ts).                    *)
(*                                                                         *)
(* Five specifications share the variables:                                *)
(*   SpecRL   - checkRateLimit alone, driven by a clock;                   *)
(*   SpecNorm - extractBraveResults applied to bounded provider bodies;    *)
(*   SpecSan  - sanitizeQuery applied to bounded queries, twice;           *)
(*   Spec     - concurrent performWebSearch invocations;                   *)
(*   SpecSess - requests to /mcp and the transports they reach.            *)
(***************************************************************************)
EXTENDS Integers, Sequences, FiniteSets, TLC

(***************************************************************************)
(* Bounds of the model.  The configured ceilings (5/20 per second,         *)
(* 1000/20000000 per month, src/unnamed/part_001) are scaled down.         *)
(***************************************************************************)
PerSecond == 2
PerMonth == 5
MaxTime == 4500

\* brave.ts:46  now - requestCount.lastReset > 1000
Window == 1000

\* The clock advances in steps of half a window, so that an elapsed time
\* of exactly one window and of more than one window both occur.
TickSteps == {500}

\* Between the steps of the invocations the clock jumps past a whole window.
GatewayTickSteps == {1500}
MaxGatewayTime == 1500

VARIABLES
    now,            \* Date.now()
    requestCount,   \* brave.ts:14  {second, month, lastReset}
    lastCheck,      \* history: the latest checkRateLimit call and its outcome
    admitted,       \* history: the times of the checks that passed
    resets          \* history: the times the per-second window was reset

rlVars == <<now, requestCount, lastCheck, admitted, resets>>

(***************************************************************************)
(* checkRateLimit, brave.ts:41-64                                          *)
(***************************************************************************)
\* brave.ts:14-18
InitRequestCount == [second |-> 0, month |-> 0, lastReset |-> 0]

\* (mutant) the window reset by every check, whatever time has passed
ResetSecond_EveryCheck(rc, t) ==
    IF t - rc.lastReset > 0
    THEN [rc EXCEPT !.second = 0, !.lastReset = t]
    ELSE rc

\* (mutant) the window reset at exactly 1000ms already
ResetSecond_AtWindow(rc, t) ==
    IF t - rc.lastReset >= Window
    THEN [rc EXCEPT !.second = 0, !.lastReset = t]
    ELSE rc

\* (mutant) the reset zeroes the monthly counter too
ResetSecond_AlsoMonth(rc, t) ==
    IF t - rc.lastReset > Window
    THEN [rc EXCEPT !.second = 0, !.month = 0, !.lastReset = t]
    ELSE rc

\* (mutant) the reset stamps the window but keeps the old count
ResetSecond_KeepCount(rc, t) ==
    IF t - rc.lastReset > Window
    THEN [rc EXCEPT !.lastReset = t]
    ELSE rc

\* brave.ts:46-49
ResetSecond(rc, t) ==
    IF t - rc.lastReset > Window
    THEN [rc EXCEPT !.second = 0, !.lastReset = t]
    ELSE rc

\* (mutant) the ceilings compared with > instead of >=
LimitExceeded_Strict(rc) ==
    rc.second > PerSecond \/ rc.month > PerMonth

\* brave.ts:52-55
LimitExceeded(rc) ==
    rc.second >= PerSecond \/ rc.month >= PerMonth

\* (mutant) only the monthly counter is incremented
UpdateCounters_MonthOnly(rc) ==
    [rc EXCEPT !.month = @ + 1]

\* brave.ts:62-63
UpdateCounters(rc) ==
    [rc EXCEPT !.second = @ + 1, !.month = @ + 1]

\* Whether checkRateLimit() called at time t throws 'Rate limit exceeded'.
checkRateLimitThrows(rc, t) == LimitExceeded(ResetSecond(rc, t))

\* requestCount after checkRateLimit() called at time t.
checkRateLimit(rc, t) ==
    IF checkRateLimitThrows(rc, t)
    THEN ResetSecond(rc, t)
    ELSE UpdateCounters(ResetSecond(rc, t))

NoCheck == [kind |-> "none", pre |-> InitRequestCount, at |-> 0, preAdmitted |-> <<>>]

\* One call of checkRateLimit at the current time; admitted records the
\* time of a check that passed, resets the time of a new window stamp.
DoCheck ==
    /\ requestCount' = checkRateLimit(requestCount, now)
    /\ admitted' = IF checkRateLimitThrows(requestCount, now)
                   THEN admitted ELSE Append(admitted, now)
    /\ resets' = IF requestCount'.lastReset # requestCount.lastReset
                 THEN Append(resets, requestCount'.lastReset) ELSE resets

\* The history of the latest check: the state it found and its outcome.
RecordCheck ==
    lastCheck' = [kind |-> IF checkRateLimitThrows(requestCount, now)
                           THEN "throw" ELSE "ok",
                  pre |-> requestCount, at |-> now,
                  preAdmitted |-> admitted]


(***************************************************************************)
(* Small sequence helpers (Array.prototype.slice, spread-push).            *)
(***************************************************************************)
Min(a, b) == IF a <= b THEN a ELSE b

\* arr.slice(0, n) for n >= 0
Slice(s, n) == SubSeq(s, 1, Min(n, Len(s)))

(***************************************************************************)
(* Provider bodies (BraveSearchResponse, src/unnamed/part_001:44-85).      *)
(* A section is [tag, items]: tag "absent" (undefined or null), "array",   *)
(* or "malformed" (present, but no array where one is expected).           *)
(***************************************************************************)
MaxHintLen == 2
MaxIndex == 2
MaxCount == 3

Raw(t, d, s) == [title |-> t, url |-> t, description |-> d, snippet |-> s]
RawA == Raw("a", "da", "")
RawB == Raw("b", "", "sb")
RawC == Raw("c", "dc", "")
RawD == Raw("d", "", "")

Sec(tag, items) == [tag |-> tag, items |-> items]
Absent == Sec("absent", <<>>)
Malformed == Sec("malformed", <<>>)

WebSections == {Absent, Malformed, Sec("array", <<RawA>>), Sec("array", <<RawA, RawB>>)}
NewsSections == {Absent, Malformed, Sec("array", <<RawC>>)}
VideoSections == {Absent, Sec("array", <<RawD>>)}

\* BraveMixedItem, src/unnamed/part_001:45-49: type, index?, all?
Dir(t, all, hasIndex, index) ==
    [type |-> t, all |-> all, hasIndex |-> hasIndex, index |-> index]

KnownTypes == {"web", "news", "videos"}
OtherTypes == {"video", "faq"}

Directives ==
    {Dir(t, TRUE, FALSE, 0) : t \in KnownTypes \cup OtherTypes}
    \cup {Dir(t, FALSE, TRUE, i) : t \in KnownTypes, i \in -1 .. MaxIndex}
    \cup {Dir("web", FALSE, FALSE, 0)}

SeqsUpTo(S, n) == UNION {[1 .. k -> S] : k \in 0 .. n}

MixedSections ==
    {Absent, Malformed} \cup {Sec("array", m) : m \in SeqsUpTo(Directives, MaxHintLen)}

\* A body with no section at all
EmptyBody == [web |-> Absent, news |-> Absent, videos |-> Absent, mixed |-> Absent]

Bodies ==
    [web : WebSections, news : NewsSections, videos : VideoSections,
     mixed : MixedSections]

(***************************************************************************)
(* extractBraveResults, brave.ts:90-209                                    *)
(***************************************************************************)
\* brave.ts:100-105  description: result.description || result.snippet || ''
MapWeb(r) ==
    [title |-> r.title,
     description |-> IF r.description # "" THEN r.description ELSE r.snippet,
     url |-> r.url, resultType |-> "web"]

\* brave.ts:117-122 and 134-139
MapOther(r, type) ==
    [title |-> r.title, description |-> r.description, url |-> r.url,
     resultType |-> type]

\* brave.ts:97-111
webResults(data) ==
    IF data.web.tag = "array"
    THEN [i \in 1 .. Len(data.web.items) |-> MapWeb(data.web.items[i])]
    ELSE <<>>

\* brave.ts:114-128
newsResults(data) ==
    IF data.news.tag = "array"
    THEN [i \in 1 .. Len(data.news.items) |-> MapOther(data.news.items[i], "news")]
    ELSE <<>>

\* brave.ts:131-145
videoResults(data) ==
    IF data.videos.tag = "array"
    THEN [i \in 1 .. Len(data.videos.items) |-> MapOther(data.videos.items[i], "video")]
    ELSE <<>>

\* (mutant) the switch naming the video section by its singular
MixedTypeKnown_Singular(type) == type \in {"web", "news", "video"}

\* brave.ts:154-167  the switch on mixedItem.type; the default case continues
MixedTypeKnown(type) == type \in {"web", "news", "videos"}

MixedSource(type, data) ==
    CASE type = "web" -> webResults(data)
      [] type = "news" -> newsResults(data)
      [] type = "videos" -> videoResults(data)
      [] OTHER -> <<>>

\* (mutant) the index read as 1-based
MixedAppend_OneBased(allResults, mixedItem, sourceResults) ==
    IF mixedItem.all
    THEN allResults \o sourceResults
    ELSE IF mixedItem.hasIndex
         THEN IF mixedItem.index >= 1 /\ mixedItem.index <= Len(sourceResults)
              THEN Append(allResults, sourceResults[mixedItem.index])
              ELSE allResults
         ELSE allResults

\* brave.ts:169-181  what one directive appends to allResults
MixedAppend(allResults, mixedItem, sourceResults) ==
    IF mixedItem.all
    THEN allResults \o sourceResults
    ELSE IF mixedItem.hasIndex
         THEN IF mixedItem.index >= 0 /\ mixedItem.index < Len(sourceResults)
              THEN Append(allResults, sourceResults[mixedItem.index + 1])
              ELSE allResults
         ELSE allResults

\* brave.ts:184  stop once the requested count is reached
MixedStop(allResults, count) == Len(allResults) >= count

\* (mutant) an unknown type ends the loop (break) instead of continuing
RECURSIVE MixedLoop_BreakOnUnknown(_, _, _, _)
MixedLoop_BreakOnUnknown(data, count, i, allResults) ==
    IF i > Len(data.mixed.items)
    THEN allResults
    ELSE LET mixedItem == data.mixed.items[i] IN
         IF ~MixedTypeKnown(mixedItem.type)
         THEN allResults
         ELSE LET pushed == MixedAppend(allResults, mixedItem,
                                        MixedSource(mixedItem.type, data))
              IN IF MixedStop(pushed, count)
                 THEN pushed
                 ELSE MixedLoop_BreakOnUnknown(data, count, i + 1, pushed)

\* brave.ts:151-187  the loop over data.mixed.main, from directive i on
RECURSIVE MixedLoop(_, _, _, _)
MixedLoop(data, count, i, allResults) ==
    IF i > Len(data.mixed.items)
    THEN allResults
    ELSE LET mixedItem == data.mixed.items[i] IN
         IF ~MixedTypeKnown(mixedItem.type)
         THEN MixedLoop(data, count, i + 1, allResults)
         ELSE LET pushed == MixedAppend(allResults, mixedItem,
                                        MixedSource(mixedItem.type, data))
              IN IF MixedStop(pushed, count)
                 THEN pushed
                 ELSE MixedLoop(data, count, i + 1, pushed)

\* (mutant) an empty hint taken for no hint: the sections are concatenated
UsesMixed_NonEmpty(data) == data.mixed.tag = "array" /\ Len(data.mixed.items) > 0

\* brave.ts:148  data.mixed?.main && Array.isArray(data.mixed.main)
UsesMixed(data) == data.mixed.tag = "array"

\* (mutant) the sections concatenated news first
FallbackConcat_NewsFirst(data) ==
    newsResults(data) \o webResults(data) \o videoResults(data)

\* brave.ts:191
FallbackConcat(data) == webResults(data) \o newsResults(data) \o videoResults(data)

\* (mutant) the final slice forgotten
LimitResults_NoSlice(allResults, count) == allResults

\* brave.ts:208
LimitResults(allResults, count) == Slice(allResults, count)

extractBraveResults(data, count) ==
    LimitResults(IF UsesMixed(data)
                 THEN MixedLoop(data, count, 1, <<>>)
                 ELSE FallbackConcat(data),
                 count)

(***************************************************************************)
(* sanitizeQuery, brave.ts:25-35.  A query is a sequence of characters.    *)
(***************************************************************************)
\* config.search.maxQueryLength (300, src/unnamed/part_001), scaled down
MaxQueryLength == 4

\* The characters String.prototype.trim and \s take for white space
\* (of which the model's alphabet holds these four).
WhiteSpace == {" ", "\t", "\n", "\r"}

RECURSIVE DropWhile(_, _)
DropWhile(q, class) ==
    IF q # <<>> /\ Head(q) \in class THEN DropWhile(Tail(q), class) ELSE q

RECURSIVE Reverse(_)
Reverse(q) == IF q = <<>> THEN <<>> ELSE Append(Reverse(Tail(q)), Head(q))

\* brave.ts:28  .trim()
Trim(q) == Reverse(DropWhile(Reverse(DropWhile(q, WhiteSpace)), WhiteSpace))

\* str.replace(/[class]+/g, ' ')
RECURSIVE ReplaceRuns(_, _)
ReplaceRuns(q, class) ==
    IF q = <<>> THEN <<>>
    ELSE IF Head(q) \in class
         THEN <<" ">> \o ReplaceRuns(DropWhile(Tail(q), class), class)
         ELSE <<Head(q)>> \o ReplaceRuns(Tail(q), class)

\* (mutant) the truncation forgotten
sanitizeQuery_NoSlice(query) ==
    ReplaceRuns(ReplaceRuns(Trim(query), {"\r", "\n", "\t"}), WhiteSpace)

\* brave.ts:27-31
sanitizeQuery(query) ==
    Slice(ReplaceRuns(ReplaceRuns(Trim(query), {"\r", "\n", "\t"}), WhiteSpace),
          MaxQueryLength)

(***************************************************************************)
(* fetchBraveSearchResults, brave.ts:214-247                               *)
(***************************************************************************)
\* brave.ts:218-229  the URL's search parameters; none is set for freshness
BuildRequest(query, count) ==
    [q |-> query, count |-> count, safesearch |-> "strict", freshness |-> "absent"]

NoRequest == [q |-> <<>>, count |-> 0, safesearch |-> "none", freshness |-> "absent"]

\* An Error's message; status is the status code the message carries (0: none).
Msg(text, status) == [text |-> text, status |-> status]
NoMsg == Msg("", 0)

\* What the provider call can come to: fetch rejects ("network"), or a
\* response with a status and a body that is no JSON ("invalid"), JSON null
\* ("null") or an object ("object").
Resp(kind, status, json, data) ==
    [kind |-> kind, status |-> status, json |-> json, data |-> data]

Statuses == {200, 401, 429, 404, 500}

GatewayBodies ==
    { EmptyBody,
      [EmptyBody EXCEPT !.web = Sec("array", <<RawA, RawB>>),
                        !.news = Sec("array", <<RawC>>)],
      [EmptyBody EXCEPT !.web = Sec("array", <<RawA>>), !.news = Malformed],
      [EmptyBody EXCEPT !.web = Sec("array", <<RawA>>),
                        !.mixed = Sec("array", <<>>)] }

Responses ==
    {Resp("network", 0, "invalid", EmptyBody)}
    \cup {Resp("http", st, "invalid", EmptyBody) : st \in Statuses}
    \cup {Resp("http", 200, "null", EmptyBody)}
    \cup {Resp("http", 200, "object", b) : b \in GatewayBodies}

\* response.ok
ResponseOk(status) == status >= 200 /\ status <= 299

\* (mutant) no case for status 429
StatusError_No429(status) ==
    IF status = 401
    THEN Msg("Brave Search API: Unauthorized - check your API key", 0)
    ELSE Msg("Brave Search API error:", status)

\* brave.ts:231-241
StatusError(status) ==
    IF status = 401
    THEN Msg("Brave Search API: Unauthorized - check your API key", 0)
    ELSE IF status = 429
         THEN Msg("Brave Search API: Rate limit exceeded", 0)
         ELSE Msg("Brave Search API error:", status)

Thrown(msg) == [tag |-> "throw", message |-> msg, results |-> <<>>, normalized |-> FALSE]
Returned(results) == [tag |-> "return", message |-> NoMsg, results |-> results, normalized |-> TRUE]

\* (mutant) the sections mapped without the Array.isArray guards: a section
\* that is no array makes .map throw
fetchBraveSearchResults_MalformedThrows(resp, count) ==
    IF resp.kind = "network" THEN Thrown(Msg("fetch failed", 0))
    ELSE IF ~ResponseOk(resp.status) THEN Thrown(StatusError(resp.status))
    ELSE IF resp.json = "invalid" THEN Thrown(Msg("Unexpected token in JSON", 0))
    ELSE IF resp.json = "null"
         THEN [Thrown(Msg("Cannot read properties of null", 0)) EXCEPT !.normalized = TRUE]
    ELSE IF \/ resp.data.web.tag = "malformed"
            \/ resp.data.news.tag = "malformed"
            \/ resp.data.videos.tag = "malformed"
         THEN [Thrown(Msg("map is not a function", 0)) EXCEPT !.normalized = TRUE]
         ELSE Returned(extractBraveResults(resp.data, count))

\* brave.ts:223-246  from the settled fetch on
fetchBraveSearchResults(resp, count) ==
    IF resp.kind = "network" THEN Thrown(Msg("fetch failed", 0))
    ELSE IF ~ResponseOk(resp.status) THEN Thrown(StatusError(resp.status))
    ELSE IF resp.json = "invalid" THEN Thrown(Msg("Unexpected token in JSON", 0))
    ELSE IF resp.json = "null"
         THEN [Thrown(Msg("Cannot read properties of null", 0)) EXCEPT !.normalized = TRUE]
         ELSE Returned(extractBraveResults(resp.data, count))

(***************************************************************************)
(* formatSearchResults, brave.ts:295-325, and performWebSearch's texts     *)
(***************************************************************************)
Text(template, query, message, entries) ==
    [template |-> template, query |-> query, message |-> message, entries |-> entries]

\* brave.ts:302-307
Emoji(r) ==
    IF r.resultType = "news" THEN "newspaper"
    ELSE IF r.resultType = "video" THEN "clapper" ELSE "globe"

\* brave.ts:299-324
formatSearchResults(query, results) ==
    Text("Search results for", query, NoMsg,
         [i \in 1 .. Len(results) |->
            [n |-> i, emoji |-> Emoji(results[i]), title |-> results[i].title,
             description |-> results[i].description, url |-> results[i].url]])

\* (mutant) the message names the query that was sent
NoResultsText_Sanitized(query) ==
    Text("No results found for", sanitizeQuery(query), NoMsg, <<>>)

\* brave.ts:276
NoResultsText(query) == Text("No results found for", query, NoMsg, <<>>)

\* brave.ts:287-288
ErrorText(query, message) ==
    Text("Sorry, there was an error performing your search for", query, message, <<>>)

(***************************************************************************)
(* performWebSearch, brave.ts:256-290, as concurrent invocations           *)
(***************************************************************************)
Procs == {"s1", "s2"}

Queries == { <<"a">>, <<" ", "a", "\n", "\t", "b", " ">> }
Counts == {1, 2}
SafeSearchLevels == {"strict", "moderate", "off"}
FreshnessTokens == {"absent", "pd"}

Args == [query : Queries, count : Counts, safeSearch : SafeSearchLevels,
         freshness : FreshnessTokens]

NoArgs == [query |-> <<>>, count |-> 0, safeSearch |-> "none", freshness |-> "absent"]

VARIABLES
    pc,             \* per invocation slot: "idle" or "fetching" (suspended in await)
    args,           \* the suspended invocation's arguments
    outbound,       \* the request it has in flight
    ret,            \* history: the latest value performWebSearch resolved to
    issued          \* history: the number of provider requests issued

gwVars == <<pc, args, outbound, ret, issued>>

NoText == Text("", <<>>, NoMsg, <<>>)
NoResp == Resp("none", 0, "invalid", EmptyBody)

\* What an invocation came to: raised (it rejected) or the text it resolved
\* to; with the history of that invocation: its query argument, the steps it
\* ran, whether its rate-limit check failed, the response its provider call
\* settled with and the results normalization gave.
NoRet == [called |-> FALSE, raised |-> FALSE, text |-> NoText, query |-> <<>>,
          steps |-> <<>>, limited |-> FALSE, resp |-> NoResp, results |-> <<>>]

\* (mutant) the rate-limit check made outside the try block
CatchAll_NotRateLimit(query, body) ==
    IF body.tag = "throw"
    THEN IF body.message = Msg("Rate limit exceeded", 0)
         THEN [raised |-> TRUE, text |-> NoText]
         ELSE [raised |-> FALSE, text |-> ErrorText(query, body.message)]
    ELSE [raised |-> FALSE, text |-> body.text]

\* brave.ts:265, 283-289  try { ... } catch (error) { return `Sorry, ...` }
CatchAll(query, body) ==
    IF body.tag = "throw"
    THEN [raised |-> FALSE, text |-> ErrorText(query, body.message)]
    ELSE [raised |-> FALSE, text |-> body.text]

\* brave.ts:56-58  the Error checkRateLimit throws
RateLimitError == [tag |-> "throw", message |-> Msg("Rate limit exceeded", 0), text |-> NoText]

\* brave.ts:272-282  the try block from the settled provider call on
AfterFetch(query, got) ==
    IF got.tag = "throw"
    THEN [tag |-> "throw", message |-> got.message, text |-> NoText]
    ELSE [tag |-> "return", message |-> NoMsg,
          text |-> IF Len(got.results) = 0
                   THEN NoResultsText(query)
                   ELSE formatSearchResults(query, got.results)]

GWIdle ==
    /\ pc = [p \in Procs |-> "idle"]
    /\ args = [p \in Procs |-> NoArgs]
    /\ outbound = [p \in Procs |-> NoRequest]
    /\ ret = NoRet
    /\ issued = 0

(***************************************************************************)
(* The /mcp endpoint, index.ts:93-184: the map of transports by session id *)
(***************************************************************************)
MaxTransports == 2

\* The mcp-session-id header: a session id, a key every object inherits
\* (such as "constructor"), or no header.
NoSessionId == 0
InheritedKey == -1
SessionIds == 1 .. MaxTransports
HeaderIds == SessionIds \cup {InheritedKey}

Transports == 1 .. MaxTransports
Undefined == 0
Inherited == -1

Methods == {"POST", "GET", "DELETE"}
RequestBodies == {"initialize", "other"}

VARIABLES
    transports,     \* the map: session id -> transport (Undefined: no entry)
    transport,      \* the transports constructed: [state, sessionId]
    reply           \* history: the latest request the endpoint finished with

sessVars == <<transports, transport, reply>>

NoTransport == [state |-> "none", sessionId |-> NoSessionId]

NoReply == [handled |-> FALSE, method |-> "none", id |-> NoSessionId,
            body |-> "none", status |-> "none", to |-> Undefined,
            registered |-> Undefined, idClosed |-> FALSE, created |-> Undefined]

\* index.ts:110, 171  transports[sessionId]: the own entry, else what the
\* object inherits under that key, else undefined
Lookup(map, id) ==
    IF id \in SessionIds /\ map[id] # Undefined THEN map[id]
    ELSE IF id = InheritedKey THEN Inherited
    ELSE Undefined

\* index.ts:117-120  onsessioninitialized
OnSessionInitialized(map, id, t) == [map EXCEPT ![id] = t]

\* (mutant) the entry left in the map when the transport closes
OnClose_KeepEntry(map, tr, t) == map

\* index.ts:124-128  transport.onclose
OnClose(map, tr, t) ==
    IF tr[t].sessionId # NoSessionId
    THEN [map EXCEPT ![tr[t].sessionId] = Undefined]
    ELSE map

\* The session ids of the transports that closed.
ClosedIds(tr) == {tr[t].sessionId : t \in {u \in Transports : tr[u].state = "closed"}}

\* The session ids randomUUID has given out.
IssuedIds(tr) == {tr[t].sessionId : t \in Transports} \ {NoSessionId}

SessIdle ==
    /\ transports = [id \in SessionIds |-> Undefined]
    /\ transport = [t \in Transports |-> NoTransport]
    /\ reply = NoReply

VARIABLES
    nData,          \* the provider body handed to extractBraveResults
    nCount,         \* its count argument
    nOut            \* [done, results]: what it returned

VARIABLES
    sQuery,         \* the raw query handed to sanitizeQuery
    sOut            \* [calls, once, twice]: sanitizeQuery applied to sQuery,
                    \* and applied again to what it returned

sanVars == <<sQuery, sOut>>

normVars == <<nData, nCount, nOut, sanVars>>

NoOut == [done |-> FALSE, results |-> <<>>]

NoSanOut == [calls |-> 0, once |-> <<>>, twice |-> <<>>]

SanIdle ==
    /\ sQuery = <<>>
    /\ sOut = NoSanOut

NormIdle ==
    /\ nData = EmptyBody
    /\ nCount = 1
    /\ nOut = NoOut
    /\ SanIdle

RLIdle ==
    /\ now = 0
    /\ requestCount = InitRequestCount
    /\ lastCheck = NoCheck
    /\ admitted = <<>>
    /\ resets = <<>>

InitNorm ==
    /\ RLIdle
    /\ GWIdle
    /\ SessIdle
    /\ nData \in Bodies
    /\ nCount \in 1 .. MaxCount
    /\ nOut = NoOut
    /\ SanIdle

Normalize ==
    /\ ~nOut.done
    /\ nOut' = [done |-> TRUE, results |-> extractBraveResults(nData, nCount)]
    /\ UNCHANGED <<nData, nCount, sanVars, rlVars, gwVars, sessVars>>

vars == <<now, requestCount, lastCheck, admitted, resets, nData, nCount, nOut,
          sQuery, sOut, pc, args, outbound, ret, issued,
          transports, transport, reply>>

NextNorm == Normalize

SpecNorm == InitNorm /\ [][NextNorm]_vars


(***************************************************************************)
(* SpecSan: sanitizeQuery applied to every raw query over a small          *)
(* alphabet, up to two characters longer than the maximum length, and      *)
(* applied once more to its own result.                                    *)
(***************************************************************************)
QueryChars == {"a", " ", "\t", "\n"}

RawQueries == SeqsUpTo(QueryChars, MaxQueryLength + 2)

InitSan ==
    /\ RLIdle
    /\ GWIdle
    /\ SessIdle
    /\ nData = EmptyBody
    /\ nCount = 1
    /\ nOut = NoOut
    /\ sQuery \in RawQueries
    /\ sOut = NoSanOut

Sanitize ==
    /\ sOut.calls = 0
    /\ sOut' = [calls |-> 1, once |-> sanitizeQuery(sQuery), twice |-> <<>>]
    /\ UNCHANGED <<sQuery, nData, nCount, nOut, rlVars, gwVars, sessVars>>

SanitizeAgain ==
    /\ sOut.calls = 1
    /\ sOut' = [sOut EXCEPT !.calls = 2, !.twice = sanitizeQuery(sOut.once)]
    /\ UNCHANGED <<sQuery, nData, nCount, nOut, rlVars, gwVars, sessVars>>

NextSan == Sanitize \/ SanitizeAgain

SpecSan == InitSan /\ [][NextSan]_vars

InitRL == RLIdle /\ NormIdle /\ GWIdle /\ SessIdle

\* Time passes; nothing else happens (there is no timer in the module).
Tick ==
    /\ \E d \in TickSteps : now + d <= MaxTime /\ now' = now + d
    /\ UNCHANGED <<requestCount, lastCheck, admitted, resets, normVars, gwVars, sessVars>>

Check ==
    /\ DoCheck
    /\ RecordCheck
    /\ UNCHANGED <<now, normVars, gwVars, sessVars>>

NextRL == Tick \/ Check

SpecRL == InitRL /\ [][NextRL]_vars

\* (mutant) the caller's safety level passed on to the provider
RequestFor_PassSafe(a) ==
    [BuildRequest(sanitizeQuery(a.query), a.count) EXCEPT !.safesearch = a.safeSearch]

\* brave.ts:269-272  the request an invocation with arguments a issues
RequestFor(a) == BuildRequest(sanitizeQuery(a.query), a.count)

(***************************************************************************)
(* Spec: performWebSearch invocations from independent sessions.  An       *)
(* invocation runs without interruption up to its await of the provider    *)
(* call, and again from the settled call to its return.                    *)
(***************************************************************************)
Init == RLIdle /\ NormIdle /\ GWIdle /\ SessIdle

\* (mutant) the request issued before the rate-limit check is made
Call_FetchBeforeCheck(p, a) ==
    /\ pc[p] = "idle"
    /\ DoCheck
    /\ issued' = issued + 1
    /\ IF checkRateLimitThrows(requestCount, now)
       THEN /\ ret' = [called |-> TRUE,
                       raised |-> CatchAll(a.query, RateLimitError).raised,
                       text |-> CatchAll(a.query, RateLimitError).text,
                       query |-> a.query, steps |-> <<"sanitize", "fetch", "check">>,
                       limited |-> TRUE, resp |-> NoResp, results |-> <<>>]
            /\ UNCHANGED <<pc, args, outbound>>
       ELSE /\ pc' = [pc EXCEPT ![p] = "fetching"]
            /\ args' = [args EXCEPT ![p] = a]
            /\ outbound' = [outbound EXCEPT ![p] = RequestFor(a)]
            /\ UNCHANGED ret
    /\ UNCHANGED <<now, lastCheck, normVars, sessVars>>

\* (mutant) the counters read before and written after a suspension point:
\* the increment of an invocation that starts while another is in flight
\* is lost
Call_LostUpdate(p, a) ==
    /\ pc[p] = "idle"
    /\ requestCount' = IF \E q \in Procs : pc[q] = "fetching"
                       THEN ResetSecond(requestCount, now)
                       ELSE checkRateLimit(requestCount, now)
    /\ admitted' = IF checkRateLimitThrows(requestCount, now)
                   THEN admitted ELSE Append(admitted, now)
    /\ resets' = IF requestCount'.lastReset # requestCount.lastReset
                 THEN Append(resets, requestCount'.lastReset) ELSE resets
    /\ IF checkRateLimitThrows(requestCount, now)
       THEN /\ ret' = [called |-> TRUE,
                       raised |-> CatchAll(a.query, RateLimitError).raised,
                       text |-> CatchAll(a.query, RateLimitError).text,
                       query |-> a.query, steps |-> <<"check">>,
                       limited |-> TRUE, resp |-> NoResp, results |-> <<>>]
            /\ UNCHANGED <<pc, args, outbound, issued>>
       ELSE /\ pc' = [pc EXCEPT ![p] = "fetching"]
            /\ args' = [args EXCEPT ![p] = a]
            /\ outbound' = [outbound EXCEPT ![p] = RequestFor(a)]
            /\ issued' = issued + 1
            /\ UNCHANGED ret
    /\ UNCHANGED <<now, lastCheck, normVars, sessVars>>

\* brave.ts:261-272  the call up to the await: the rate-limit check, the
\* sanitized query, the request.  A failed check is caught (283-289) and
\* the invocation returns at once.
Call(p, a) ==
    /\ pc[p] = "idle"
    /\ DoCheck
    /\ IF checkRateLimitThrows(requestCount, now)
       THEN /\ ret' = [called |-> TRUE,
                       raised |-> CatchAll(a.query, RateLimitError).raised,
                       text |-> CatchAll(a.query, RateLimitError).text,
                       query |-> a.query, steps |-> <<"check">>,
                       limited |-> TRUE, resp |-> NoResp, results |-> <<>>]
            /\ UNCHANGED <<pc, args, outbound, issued>>
       ELSE /\ pc' = [pc EXCEPT ![p] = "fetching"]
            /\ args' = [args EXCEPT ![p] = a]
            /\ outbound' = [outbound EXCEPT ![p] = RequestFor(a)]
            /\ issued' = issued + 1
            /\ UNCHANGED ret
    /\ UNCHANGED <<now, lastCheck, normVars, sessVars>>

\* (mutant) the budget given back when the provider call failed or gave no
\* result
Settle_Refund(p, resp) ==
    /\ pc[p] = "fetching"
    /\ LET got == fetchBraveSearchResults(resp, args[p].count)
           query == args[p].query
           out == CatchAll(query, AfterFetch(query, got))
       IN ret' = [called |-> TRUE, raised |-> out.raised, text |-> out.text,
                  query |-> query, limited |-> FALSE, resp |-> resp,
                  results |-> got.results,
                  steps |-> <<"check", "sanitize", "fetch">>
                            \o (IF got.normalized THEN <<"normalize">> ELSE <<>>)
                            \o (IF got.tag = "return" /\ Len(got.results) > 0
                                THEN <<"format">> ELSE <<>>)]
    /\ pc' = [pc EXCEPT ![p] = "idle"]
    /\ args' = [args EXCEPT ![p] = NoArgs]
    /\ outbound' = [outbound EXCEPT ![p] = NoRequest]
    /\ requestCount' =
         IF fetchBraveSearchResults(resp, args[p].count).results = <<>>
         THEN [requestCount EXCEPT !.second = IF @ > 0 THEN @ - 1 ELSE 0,
                                   !.month = IF @ > 0 THEN @ - 1 ELSE 0]
         ELSE requestCount
    /\ UNCHANGED <<now, lastCheck, admitted, resets, normVars, issued, sessVars>>

\* brave.ts:272-289  the provider call settles with resp and the invocation
\* runs to its return.
Settle(p, resp) ==
    /\ pc[p] = "fetching"
    /\ LET got == fetchBraveSearchResults(resp, args[p].count)
           query == args[p].query
           out == CatchAll(query, AfterFetch(query, got))
       IN ret' = [called |-> TRUE, raised |-> out.raised, text |-> out.text,
                  query |-> query, limited |-> FALSE, resp |-> resp,
                  results |-> got.results,
                  steps |-> <<"check", "sanitize", "fetch">>
                            \o (IF got.normalized THEN <<"normalize">> ELSE <<>>)
                            \o (IF got.tag = "return" /\ Len(got.results) > 0
                                THEN <<"format">> ELSE <<>>)]
    /\ pc' = [pc EXCEPT ![p] = "idle"]
    /\ args' = [args EXCEPT ![p] = NoArgs]
    /\ outbound' = [outbound EXCEPT ![p] = NoRequest]
    /\ UNCHANGED <<rlVars, normVars, issued, sessVars>>

\* Time passes while invocations are suspended or none runs.
GatewayTick ==
    /\ \E d \in GatewayTickSteps : now + d <= MaxGatewayTime /\ now' = now + d
    /\ UNCHANGED <<requestCount, lastCheck, admitted, resets, normVars, gwVars, sessVars>>

Next ==
    \/ \E p \in Procs, a \in Args : Call(p, a)
    \/ \E p \in Procs, resp \in Responses : Settle(p, resp)
    \/ GatewayTick

Spec == Init /\ [][Next]_vars

(***************************************************************************)
(* SpecSess: requests to /mcp, index.ts:103-184.  A handler runs without   *)
(* interruption between its awaits; the only await before the dispatch is  *)
(* server.connect, on the path that creates a transport.  What a transport *)
(* does with a request it is handed is the library's: it accepts or        *)
(* rejects an initialize request, it may close on DELETE, and it may close *)
(* at any time.  randomUUID gives a session id not given out before.       *)
(***************************************************************************)
\* The reply to a request, with what the map held for its id when the
\* handler ran and whether that id's transport had closed by then.
Answer(method, id, body, status, to, created) ==
    [handled |-> TRUE, method |-> method, id |-> id, body |-> body,
     status |-> status, to |-> to,
     registered |-> IF id \in SessionIds THEN transports[id] ELSE Undefined,
     idClosed |-> id \in ClosedIds(transport), created |-> created]

\* index.ts:103-163  app.post('/mcp'), up to the dispatch or to the await of
\* server.connect
PostMcp(id, body) ==
    /\ IF id # NoSessionId /\ Lookup(transports, id) # Undefined
       THEN \* 110-112, 149; calling handleRequest on what is no transport
            \* throws, and the catch at 150-161 answers 500
            /\ reply' = IF Lookup(transports, id) = Inherited
                        THEN Answer("POST", id, body, "500", Undefined, Undefined)
                        ELSE Answer("POST", id, body, "transport",
                                    Lookup(transports, id), Undefined)
            /\ UNCHANGED <<transports, transport>>
       ELSE IF id = NoSessionId /\ body = "initialize"
       THEN \* 113-134
            /\ \E t \in Transports :
                 /\ transport[t].state = "none"
                 /\ \A u \in Transports : transport[u].state = "none" => t <= u
                 /\ transport' = [transport EXCEPT ![t].state = "connecting"]
            /\ UNCHANGED <<transports, reply>>
       ELSE \* 135-146
            /\ reply' = Answer("POST", id, body, "400", Undefined, Undefined)
            /\ UNCHANGED <<transports, transport>>
    /\ UNCHANGED <<rlVars, normVars, gwVars>>

\* index.ts:134-161  server.connect settles and the initialize request goes
\* to the transport just created, which gives itself a session id and calls
\* onsessioninitialized, or rejects the request; a failure is answered 500
HandleInitialize(t) ==
    /\ transport[t].state = "connecting"
    /\ \E outcome \in {"accepted", "rejected", "failed"} :
         CASE outcome = "accepted" ->
                \E id \in SessionIds \ IssuedIds(transport) :
                  /\ transport' = [transport EXCEPT
                                     ![t] = [state |-> "open", sessionId |-> id]]
                  /\ transports' = OnSessionInitialized(transports, id, t)
                  /\ reply' = Answer("POST", NoSessionId, "initialize",
                                     "transport", t, t)
           [] outcome = "rejected" ->
                /\ transport' = [transport EXCEPT ![t].state = "unregistered"]
                /\ reply' = Answer("POST", NoSessionId, "initialize",
                                   "transport", t, t)
                /\ UNCHANGED transports
           [] outcome = "failed" ->
                /\ transport' = [transport EXCEPT ![t].state = "unregistered"]
                /\ reply' = Answer("POST", NoSessionId, "initialize",
                                   "500", Undefined, t)
                /\ UNCHANGED transports
    /\ UNCHANGED <<rlVars, normVars, gwVars>>

\* index.ts:166-178  the handler of GET and DELETE.  A DELETE handed to a
\* transport may close it, which runs onclose.  Calling handleRequest on
\* what is no transport throws out of the handler: the framework answers
\* 500 or leaves the request unanswered.
handleSessionRequest(method, id) ==
    /\ IF id = NoSessionId \/ Lookup(transports, id) = Undefined
       THEN /\ reply' = Answer(method, id, "none", "400", Undefined, Undefined)
            /\ UNCHANGED <<transports, transport>>
       ELSE IF Lookup(transports, id) = Inherited
       THEN /\ \E status \in {"500", "none"} :
                 reply' = Answer(method, id, "none", status, Undefined, Undefined)
            /\ UNCHANGED <<transports, transport>>
       ELSE LET t == Lookup(transports, id) IN
            /\ reply' = Answer(method, id, "none", "transport", t, Undefined)
            /\ \E closes \in BOOLEAN :
                 IF method = "DELETE" /\ closes
                 THEN /\ transport' = [transport EXCEPT ![t].state = "closed"]
                      /\ transports' = OnClose(transports, transport, t)
                 ELSE UNCHANGED <<transports, transport>>
    /\ UNCHANGED <<rlVars, normVars, gwVars>>

\* index.ts:124-128  a transport closes by itself
TransportClose(t) ==
    /\ transport[t].state = "open"
    /\ transport' = [transport EXCEPT ![t].state = "closed"]
    /\ transports' = OnClose(transports, transport, t)
    /\ UNCHANGED <<reply, rlVars, normVars, gwVars>>

InitSess == RLIdle /\ NormIdle /\ GWIdle /\ SessIdle

NextSess ==
    \/ \E id \in HeaderIds \cup {NoSessionId}, body \in RequestBodies : PostMcp(id, body)
    \/ \E t \in Transports : HandleInitialize(t)
    \/ \E id \in HeaderIds \cup {NoSessionId} : handleSessionRequest("GET", id)
    \/ \E id \in HeaderIds \cup {NoSessionId} : handleSessionRequest("DELETE", id)
    \/ \E t \in Transports : TransportClose(t)

SpecSess == InitSess /\ [][NextSess]_vars

(***************************************************************************)
(* Claims about checkRateLimit (SpecRL)                                    *)
(***************************************************************************)
\* The per-second count the latest check compared, after its own reset.
SecondAfterReset ==
    IF lastCheck.at - lastCheck.pre.lastReset > Window
    THEN 0 ELSE lastCheck.pre.second

\* The checks that passed since the window the latest check ran in began.
PassedInWindow ==
    {i \in DOMAIN lastCheck.preAdmitted :
        lastCheck.preAdmitted[i] >= lastCheck.pre.lastReset}

\* C1: checkRateLimit fails exactly when, after the reset that check itself
\* may do, second >= perSecond or month >= perMonth; a failing check leaves
\* both counters as they were after the reset, a passing one adds 1 to each.
C1_CheckBeforeIncrement ==
    lastCheck.kind # "none" =>
        LET over == \/ SecondAfterReset >= PerSecond
                    \/ lastCheck.pre.month >= PerMonth
        IN /\ (lastCheck.kind = "throw") <=> over
           /\ over => /\ requestCount.second = SecondAfterReset
                      /\ requestCount.month = lastCheck.pre.month
           /\ ~over => /\ requestCount.second = SecondAfterReset + 1
                       /\ requestCount.month = lastCheck.pre.month + 1

\* A check that reset the window and still failed, on the monthly ceiling.
C1_Witness ==
    /\ lastCheck.kind = "throw"
    /\ lastCheck.at - lastCheck.pre.lastReset > Window
    /\ lastCheck.pre.month >= PerMonth
    /\ requestCount.second = 0
    /\ requestCount.month = PerMonth

\* C2: after exactly perSecond checks passed in one window, the next check
\* made in that window (it does not reset) fails.
C2_NextInWindowFails ==
    ( /\ lastCheck.kind # "none"
      /\ ~(lastCheck.at - lastCheck.pre.lastReset > Window)
      /\ Cardinality(PassedInWindow) = PerSecond )
    => lastCheck.kind = "throw"

\* The failure is the per-second ceiling's: the monthly budget is not used up.
C2_Witness ==
    /\ lastCheck.kind = "throw"
    /\ ~(lastCheck.at - lastCheck.pre.lastReset > Window)
    /\ Cardinality(PassedInWindow) = PerSecond
    /\ lastCheck.pre.month < PerMonth

\* C3 as stated: with the per-second ceiling hit, a check made >= 1000ms
\* after the last reset (exactly 1000ms included) passes when the monthly
\* count is below its ceiling.
C3_Original ==
    ( /\ lastCheck.kind # "none"
      /\ lastCheck.pre.second >= PerSecond
      /\ lastCheck.at - lastCheck.pre.lastReset >= Window
      /\ lastCheck.pre.month < PerMonth )
    => lastCheck.kind = "ok"

\* C3 (amended): with the per-second ceiling hit, a check made more than
\* 1000ms after the last reset passes when the monthly count is below its
\* ceiling.
C3_PassesAfterWindow ==
    ( /\ lastCheck.kind # "none"
      /\ lastCheck.pre.second >= PerSecond
      /\ lastCheck.pre.month < PerMonth
      /\ lastCheck.at - lastCheck.pre.lastReset > Window )
    => lastCheck.kind = "ok"

C3_Witness ==
    /\ lastCheck.kind = "ok"
    /\ lastCheck.pre.second >= PerSecond
    /\ lastCheck.at - lastCheck.pre.lastReset > Window
    /\ lastCheck.pre.month < PerMonth
    /\ requestCount.second = 1

(***************************************************************************)
(* Claims about extractBraveResults (SpecNorm)                             *)
(***************************************************************************)
\* The list a directive's type resolves to.
ResolvedList(type) ==
    IF type = "web" THEN webResults(nData)
    ELSE IF type = "news" THEN newsResults(nData)
    ELSE IF type = "videos" THEN videoResults(nData)
    ELSE <<>>

\* What one directive contributes, by the rules of the hint.
Contribution(d) ==
    IF d.type \notin {"web", "news", "videos"} THEN <<>>
    ELSE IF d.all THEN ResolvedList(d.type)
    ELSE IF d.hasIndex /\ 0 <= d.index /\ d.index < Len(ResolvedList(d.type))
         THEN <<ResolvedList(d.type)[d.index + 1]>>
         ELSE <<>>

RECURSIVE Contributions(_)
Contributions(ds) ==
    IF ds = <<>> THEN <<>>
    ELSE Contribution(Head(ds)) \o Contributions(Tail(ds))

FirstItems(s, n) == [i \in 1 .. (IF Len(s) < n THEN Len(s) ELSE n) |-> s[i]]

\* A directive the loop skips: unknown type, or an index out of bounds.
Skipped(d) ==
    \/ d.type \notin {"web", "news", "videos"}
    \/ /\ ~d.all
       /\ d.hasIndex
       /\ (d.index < 0 \/ d.index >= Len(ResolvedList(d.type)))

NotSkipped(d) == ~Skipped(d)

Normalized(t, d, type) == [title |-> t, description |-> d, url |-> t, resultType |-> type]

\* C5: on the hint path and on the fallback path the output is never longer
\* than count.
C5_LengthAtMostCount ==
    nOut.done => Len(nOut.results) <= nCount

\* The hint names more items than count, and the output is cut to count.
C5_Witness ==
    /\ nOut.done
    /\ nData.mixed.tag = "array"
    /\ Len(Contributions(nData.mixed.items)) > nCount
    /\ Len(nOut.results) = nCount

\* C6: with a hint, the output is the first count items of the directives'
\* contributions concatenated in directive order, with no deduplication;
\* web=[a,b], news=[c], video=[], hint=[web all, news 0], count=10: [a,b,c].
C6_HintOrder ==
    /\ nOut.done /\ nData.mixed.tag = "array"
         => nOut.results = FirstItems(Contributions(nData.mixed.items), nCount)
    /\ extractBraveResults(
           [web |-> Sec("array", <<RawA, RawB>>), news |-> Sec("array", <<RawC>>),
            videos |-> Sec("array", <<>>),
            mixed |-> Sec("array", <<Dir("web", TRUE, FALSE, 0),
                                     Dir("news", FALSE, TRUE, 0)>>)], 10)
         = <<Normalized("a", "da", "web"), Normalized("b", "sb", "web"),
             Normalized("c", "dc", "news")>>

\* An index directive followed by a take-all of the same section: the item
\* named twice is output twice.
C6_Witness ==
    /\ nOut.done
    /\ nData.mixed = Sec("array", <<Dir("web", FALSE, TRUE, 1),
                                    Dir("web", TRUE, FALSE, 0)>>)
    /\ nCount = 3
    /\ nOut.results = <<Normalized("b", "sb", "web"), Normalized("a", "da", "web"),
                        Normalized("b", "sb", "web")>>

\* C7: without a well-formed hint (absent, or present but no sequence) the
\* output is the first count items of web ++ news ++ video.
C7_FallbackOrder ==
    nOut.done /\ nData.mixed.tag # "array"
        => nOut.results =
             FirstItems(webResults(nData) \o newsResults(nData) \o videoResults(nData),
                        nCount)

C7_Witness ==
    /\ nOut.done
    /\ nData.mixed.tag = "malformed"
    /\ nCount = 3
    /\ nOut.results = <<Normalized("a", "da", "web"), Normalized("c", "dc", "news"),
                        Normalized("d", "", "video")>>

\* C8: a directive with an out-of-bounds index, or naming an unknown type,
\* appends nothing and raises nothing, and the directives after it are
\* processed as if it were not there.
C8_SkippedDirectives ==
    nOut.done /\ nData.mixed.tag = "array"
        => nOut.results =
             extractBraveResults(
                 [nData EXCEPT !.mixed.items = SelectSeq(@, NotSkipped)], nCount)

\* A skipped directive first, then one that contributes.
C8_Witness ==
    /\ nOut.done
    /\ nData.mixed.tag = "array"
    /\ Len(nData.mixed.items) = 2
    /\ nData.mixed.items[1].type = "faq"
    /\ nData.mixed.items[2] = Dir("news", FALSE, TRUE, 0)
    /\ nOut.results = <<Normalized("c", "dc", "news")>>

(***************************************************************************)
(* Claims about performWebSearch (Spec)                                    *)
(***************************************************************************)
ErrorTemplate == "Sorry, there was an error performing your search for"

\* The failure the latest invocation met, read off what happened to it.
Failure ==
    IF ret.limited THEN "ratelimit"
    ELSE IF ret.resp.kind = "network" THEN "network"
    ELSE IF ret.resp.kind = "http" /\ ~(ret.resp.status \in 200 .. 299) THEN "status"
    ELSE IF ret.resp.kind = "http" /\ ret.resp.json = "invalid" THEN "parse"
    ELSE IF ret.resp.kind = "http" /\ ret.resp.json = "null" THEN "normalize"
    ELSE "none"

\* C4: performWebSearch never raises; a failed rate-limit check, a network
\* failure, a non-success status, an unparsable body and an exception in
\* normalization each become a returned text that embeds the original query
\* and the error's message.
C4_AlwaysReturnsText ==
    ret.called =>
        /\ ~ret.raised
        /\ ret.text # NoText
        /\ Failure # "none" =>
              /\ ret.text.template = ErrorTemplate
              /\ ret.text.query = ret.query
              /\ ret.text.message # NoMsg
              /\ ret.text.entries = <<>>
        /\ Failure = "ratelimit" => ret.text.message = Msg("Rate limit exceeded", 0)
        /\ Failure = "none" => ret.text.template # ErrorTemplate

\* The local rate limit failed an invocation whose query needs sanitizing.
C4_Witness ==
    /\ ret.called
    /\ Failure = "ratelimit"
    /\ ret.query # sanitizeQuery(ret.query)
    /\ ret.text = [template |-> ErrorTemplate, query |-> ret.query,
                   message |-> Msg("Rate limit exceeded", 0), entries |-> <<>>]

\* C9: when the provider call succeeds and normalization gives no result,
\* the text is the "No results found" message with the query as the caller
\* gave it, not as it was sent.
C9_NoResultsNamesOriginalQuery ==
    ( /\ ret.called
      /\ Failure = "none"
      /\ ret.results = <<>> )
    => /\ ~ret.raised
       /\ ret.text.template = "No results found for"
       /\ ret.text.query = ret.query

C9_Witness ==
    /\ ret.called
    /\ Failure = "none"
    /\ ret.results = <<>>
    /\ ret.query # sanitizeQuery(ret.query)
    /\ ret.text.template = "No results found for"
    /\ ret.text.query = ret.query

\* C10: a 401 gives the authorization message, a 429 the provider's
\* rate-limit message, any other non-success status the generic message
\* with that status code; the invocation returns that one text, does not
\* raise, and normalizes nothing.
C10_StatusMessages ==
    ( /\ ret.called
      /\ ret.resp.kind = "http"
      /\ ~(ret.resp.status \in 200 .. 299) )
    => /\ ~ret.raised
       /\ ret.text.template = ErrorTemplate
       /\ ret.text.query = ret.query
       /\ ret.text.entries = <<>>
       /\ ret.resp.status = 401 =>
             ret.text.message =
               Msg("Brave Search API: Unauthorized - check your API key", 0)
       /\ ret.resp.status = 429 =>
             ret.text.message = Msg("Brave Search API: Rate limit exceeded", 0)
       /\ ret.resp.status \notin {401, 429} =>
             ret.text.message = Msg("Brave Search API error:", ret.resp.status)
       /\ \A i \in DOMAIN ret.steps : ret.steps[i] # "normalize"
       /\ ret.results = <<>>

C10_Witness ==
    /\ ret.called
    /\ ret.resp.kind = "http"
    /\ ret.resp.status = 429
    /\ ret.text.message = Msg("Brave Search API: Rate limit exceeded", 0)
    /\ ret.steps = <<"check", "sanitize", "fetch">>

(***************************************************************************)
(* Claims about sanitizeQuery (SpecSan)                                    *)
(***************************************************************************)
\* C11: sanitize is idempotent: sanitizing a sanitized query changes nothing,
\* also when the truncation point falls next to white space.
C11_Idempotent ==
    sOut.calls = 2 => sOut.twice = sOut.once

\* C12: sanitize never fails and its output is at most maxQueryLength
\* characters long.
C12_LengthAtMostMax ==
    sOut.calls >= 1 => Len(sOut.once) <= MaxQueryLength

\* A query whose sanitized form had to be cut to the maximum length.
C12_Witness ==
    /\ sOut.calls >= 1
    /\ Len(sanitizeQuery_NoSlice(sQuery)) > MaxQueryLength
    /\ Len(sOut.once) = MaxQueryLength

(***************************************************************************)
(* Further claims about checkRateLimit (SpecRL)                            *)
(***************************************************************************)
\* C15: in every state reached by checks and time advances both counters
\* are non-negative integers, second <= perSecond and month <= perMonth.
C15_CountersWithinCeilings ==
    /\ requestCount.second \in 0 .. PerSecond
    /\ requestCount.month \in 0 .. PerMonth

\* Both counters at their ceilings.
C15_Witness ==
    /\ requestCount.second = PerSecond
    /\ requestCount.month = PerMonth

\* C16: time passing changes no counter; a check at time now zeroes the
\* per-second count and stamps lastReset = now exactly when more than 1000ms
\* have passed since the last reset, and otherwise leaves lastReset alone.
C16_LazyReset ==
    [][ /\ now' # now => requestCount' = requestCount
        /\ lastCheck' # lastCheck =>
             /\ lastCheck'.pre = requestCount
             /\ lastCheck'.at = now
             /\ IF now - requestCount.lastReset > Window
                THEN /\ requestCount'.lastReset = now
                     /\ requestCount'.second =
                          (IF lastCheck'.kind = "ok" THEN 1 ELSE 0)
                ELSE /\ requestCount'.lastReset = requestCount.lastReset
                     /\ requestCount'.second >= requestCount.second ]_vars

\* A check made exactly 1000ms after the last reset left the window alone,
\* and a later one, more than 1000ms after it, reset it.
C16_Witness ==
    /\ lastCheck.kind # "none"
    /\ lastCheck.at - lastCheck.pre.lastReset > Window
    /\ requestCount.lastReset = lastCheck.at
    /\ \E i \in DOMAIN admitted : admitted[i] = Window
    /\ resets = <<lastCheck.at>>
    /\ now > lastCheck.at

\* C17: the monthly count never decreases and is never reset: once it is at
\* its ceiling every later check fails whatever time has passed, and at most
\* perMonth checks ever pass.
C17_MonthNeverResets ==
    /\ [](Len(admitted) <= PerMonth)
    /\ [](lastCheck.kind # "none" /\ lastCheck.pre.month >= PerMonth
            => lastCheck.kind = "throw")
    /\ [][requestCount'.month >= requestCount.month]_vars

\* The monthly budget is used up, the window was reset since, and the check
\* that reset it failed all the same.
C17_Witness ==
    /\ Len(admitted) = PerMonth
    /\ resets # <<>>
    /\ lastCheck.kind = "throw"
    /\ lastCheck.at = resets[Len(resets)]
    /\ lastCheck.at > admitted[Len(admitted)]

\* C18: more than perSecond checks can pass within one span of 1000ms, and
\* when they do the span holds a window boundary: the window was reset
\* after the first of them and no later than the last.
C18_BurstOnlyAcrossBoundary ==
    \A i, j \in DOMAIN admitted :
        (j - i >= PerSecond /\ admitted[j] - admitted[i] < Window)
        => \E k \in DOMAIN resets :
              admitted[i] < resets[k] /\ resets[k] <= admitted[j]

\* Twice perSecond checks passed within half a window.
C18_Witness ==
    \E i, j \in DOMAIN admitted :
        /\ j - i = 2 * PerSecond - 1
        /\ admitted[j] - admitted[i] < Window

(***************************************************************************)
(* Further claims about performWebSearch (Spec)                            *)
(***************************************************************************)
\* C13: the request does not depend on the caller's safety level: two
\* invocations that differ only in safeSearch have the same request in
\* flight, with safesearch "strict".
C13_RequestIgnoresSafety ==
    \A p, q \in Procs :
        (pc[p] = "fetching" /\ pc[q] = "fetching")
        => /\ outbound[p].safesearch = "strict"
           /\ [args[p] EXCEPT !.safeSearch = args[q].safeSearch] = args[q]
                 => outbound[p] = outbound[q]

C13_Witness ==
    \E p, q \in Procs :
        /\ pc[p] = "fetching" /\ pc[q] = "fetching"
        /\ args[p].safeSearch = "off" /\ args[q].safeSearch = "moderate"
        /\ [args[p] EXCEPT !.safeSearch = "moderate"] = args[q]
        /\ outbound[p] = outbound[q]
        /\ outbound[p].safesearch = "strict"

\* The body with each malformed section taken for absent.
WithoutMalformed(data) ==
    [f \in DOMAIN data |-> IF data[f].tag = "malformed" THEN Absent ELSE data[f]]

HasMalformed(data) ==
    \E f \in {"web", "news", "videos"} : data[f].tag = "malformed"

\* C14: a malformed section of the response counts as an empty list and is
\* no error: performWebSearch returns the items of the valid sections.
C14_MalformedSectionIsEmpty ==
    ( /\ ret.called
      /\ Failure = "none"
      /\ HasMalformed(ret.resp.data) )
    => /\ ~ret.raised
       /\ ret.text.template # ErrorTemplate
       /\ \E c \in Counts :
             /\ ret.results = extractBraveResults(WithoutMalformed(ret.resp.data), c)
             /\ ret.text = IF ret.results = <<>>
                           THEN NoResultsText(ret.query)
                           ELSE formatSearchResults(ret.query, ret.results)

\* The news section is malformed and the web item is returned.
C14_Witness ==
    /\ ret.called
    /\ Failure = "none"
    /\ ret.resp.data.news.tag = "malformed"
    /\ ret.text.template = "Search results for"
    /\ Len(ret.text.entries) = 1
    /\ ret.text.entries[1].title = "a"

StepOrder == <<"check", "sanitize", "fetch", "normalize", "format">>

\* s holds its steps in the order of StepOrder, none of them twice.
InStepOrder(s) ==
    \A i, j \in DOMAIN s :
        i < j => \E k, l \in DOMAIN StepOrder :
                    k < l /\ StepOrder[k] = s[i] /\ StepOrder[l] = s[j]

\* C19: an invocation runs check, sanitize, fetch, normalize, format in that
\* order; a request is issued only by an invocation whose own check passed,
\* and an invocation whose check failed issues none.
C19_CheckBeforeProviderCall ==
    /\ issued = Len(admitted)
    /\ \A p \in Procs : (pc[p] = "fetching") <=> (outbound[p] # NoRequest)
    /\ ret.called =>
          /\ InStepOrder(ret.steps)
          /\ ret.steps[1] = "check"
          /\ ret.limited => ret.steps = <<"check">>
          /\ ~ret.limited => SubSeq(ret.steps, 1, 3) = <<"check", "sanitize", "fetch">>

\* A check failed while the other invocation's request was in flight, and
\* the requests issued are those of the checks that passed.
C19_Witness ==
    /\ ret.called
    /\ ret.limited
    /\ ret.steps = <<"check">>
    /\ issued = PerSecond
    /\ \E p \in Procs : pc[p] = "fetching"
    /\ \E p \in Procs : pc[p] = "idle" /\ outbound[p] = NoRequest

\* The checks that passed from the k-th window stamp (0: module load) up to
\* the next one.
WindowStart(k) == IF k = 0 THEN 0 ELSE resets[k]

AdmittedInWindow(k) ==
    {i \in DOMAIN admitted :
        /\ WindowStart(k) <= admitted[i]
        /\ k < Len(resets) => admitted[i] < resets[k + 1]}

\* C20: with invocations interleaving only at the provider call, at most
\* perSecond invocations are admitted between two consecutive resets of the
\* per-second window and at most perMonth in all.
C20_AdmissionIsAtomic ==
    /\ Len(admitted) <= PerMonth
    /\ requestCount.month = Len(admitted)
    /\ \A k \in 0 .. Len(resets) : Cardinality(AdmittedInWindow(k)) <= PerSecond

\* Both slots were admitted and suspended together in the first window, a
\* third invocation was refused in it, and after a reset both are suspended
\* again.
C20_Witness ==
    /\ \A p \in Procs : pc[p] = "fetching"
    /\ Len(resets) = 1
    /\ Cardinality(AdmittedInWindow(0)) = PerSecond
    /\ Cardinality(AdmittedInWindow(1)) = PerSecond
    /\ ret.limited

(***************************************************************************)
(* Claims about the freshness token (Spec)                                 *)
(***************************************************************************)
\* C21: the request of an invocation in flight carries the freshness token
\* its caller supplied, and carries none when the caller supplied none.
C21_FreshnessForwarded ==
    \A p \in Procs :
        pc[p] = "fetching" => outbound[p].freshness = args[p].freshness

(***************************************************************************)
(* Claims about the directive types (SpecNorm)                             *)
(***************************************************************************)
\* What the hint made of the single directive d gives, for the body at hand.
AloneInHint(d) ==
    extractBraveResults([nData EXCEPT !.mixed.items = <<d>>], nCount)

\* What directive d contributes when the video section is named by the
\* token video and every type outside {web, news, video} is unrecognized.
ContributionNaming(video, d) ==
    LET list == IF d.type = "web" THEN webResults(nData)
                ELSE IF d.type = "news" THEN newsResults(nData)
                ELSE IF d.type = video THEN videoResults(nData)
                ELSE <<>>
    IN IF d.all THEN list
       ELSE IF d.hasIndex /\ 0 <= d.index /\ d.index < Len(list)
            THEN <<list[d.index + 1]>>
            ELSE <<>>

DirectivesOfHint == {nData.mixed.items[i] : i \in DOMAIN nData.mixed.items}

\* C22 as stated: a directive of type web, news, video resolves to the web,
\* news, video list respectively, and only a directive of another type is
\* unrecognized and skipped.
C22_Original ==
    nOut.done /\ nData.mixed.tag = "array"
        => \A d \in DirectivesOfHint :
               AloneInHint(d) = FirstItems(ContributionNaming("video", d), nCount)

\* C22 (amended): a directive of type web, news, videos resolves to the web,
\* news, video list respectively; a directive of any other type, video
\* included, is unrecognized and skipped.
C22_ResolvesByType ==
    nOut.done /\ nData.mixed.tag = "array"
        => \A d \in DirectivesOfHint :
               AloneInHint(d) = FirstItems(ContributionNaming("videos", d), nCount)

\* A hint naming the video section twice, as video and as videos: only the
\* second directive contributes.
C22_Witness ==
    /\ nOut.done
    /\ nData.mixed = Sec("array", <<Dir("video", TRUE, FALSE, 0),
                                    Dir("videos", TRUE, FALSE, 0)>>)
    /\ nData.videos = Sec("array", <<RawD>>)
    /\ nOut.results = <<Normalized("d", "", "video")>>

(***************************************************************************)
(* Claims about the sessions of /mcp (SpecSess)                            *)
(***************************************************************************)
\* C23: once a session's transport has closed its id is no longer in the
\* map; a later request carrying that id, whatever its method and body, is
\* answered 400 and handed to no transport; and a request is handed only to
\* the transport registered under its own id, or to the one it created as
\* an initialize request without a session id.
C23_ClosedSessionsRejected ==
    /\ \A id \in ClosedIds(transport) : transports[id] = Undefined
    /\ reply.handled /\ reply.idClosed
         => reply.status = "400" /\ reply.to = Undefined
    /\ reply.to # Undefined
         => \/ reply.id \in SessionIds /\ reply.to = reply.registered
            \/ /\ reply.id = NoSessionId
               /\ reply.method = "POST"
               /\ reply.body = "initialize"
               /\ reply.to = reply.created

\* An initialize request carrying the id of a closed session is refused
\* while another session is open.
C23_Witness ==
    /\ reply.handled
    /\ reply.idClosed
    /\ reply.method = "POST"
    /\ reply.body = "initialize"
    /\ reply.status = "400"
    /\ \E id \in SessionIds : transports[id] # Undefined

(***************************************************************************)
(* Claims about bursts and the budget (SpecRL, Spec)                       *)
(***************************************************************************)
\* The checks that passed in the 1000ms that begin at time t, both ends
\* included.
AdmittedWithin(t) ==
    {i \in DOMAIN admitted : t <= admitted[i] /\ admitted[i] <= t + Window}

\* C24: two consecutive resets of the per-second window, the stamp of module
\* load included, are more than 1000ms apart, and in any 1000ms at most
\* 2 x perSecond checks pass (an interval holding the most passes can be
\* taken to begin at a pass).
C24_BurstAtMostTwice ==
    /\ \A k \in 1 .. Len(resets) : resets[k] - WindowStart(k - 1) > Window
    /\ \A i \in DOMAIN admitted :
           Cardinality(AdmittedWithin(admitted[i])) <= 2 * PerSecond

\* A full window's passes, a reset less than 1000ms later and a second full
\* window: 2 x perSecond passes in 1000ms, with budget left for the month.
C24_Witness ==
    /\ Len(resets) >= 1
    /\ \E i \in DOMAIN admitted :
           /\ admitted[i] < resets[1]
           /\ Cardinality(AdmittedWithin(admitted[i])) = 2 * PerSecond
    /\ requestCount.month < PerMonth

\* The checks that passed since the current per-second window was stamped.
AdmittedSinceReset ==
    {i \in DOMAIN admitted : admitted[i] >= requestCount.lastReset}

\* C25: the budget is never refunded.  The monthly count is the number of
\* invocations that passed the check, the per-second count the number that
\* passed in the current window, and the step that settles an invocation
\* (network failure, 401, 429, other status, unparsable body, no result,
\* results) changes neither.
C25_BudgetNeverRefunded ==
    /\ [](/\ requestCount.month = issued
          /\ requestCount.second = Cardinality(AdmittedSinceReset))
    /\ [][(\E p \in Procs : pc[p] = "fetching" /\ pc'[p] = "idle")
            => requestCount' = requestCount]_vars

\* Every invocation admitted in the first window has settled, the latest on
\* a failure of its provider call, and the window's budget is still used up.
C25_Witness ==
    /\ \A p \in Procs : pc[p] = "idle"
    /\ ret.called
    /\ Failure \in {"network", "status", "parse", "normalize"}
    /\ resets = <<>>
    /\ issued = PerSecond
    /\ requestCount.second = PerSecond
    /\ requestCount.month = PerSecond

(***************************************************************************)
(* Claims about sections the hint does not name (SpecNorm)                 *)
(***************************************************************************)
\* The section a normalized result was taken from, by the name directives
\* use for it.
SectionOf(r) == IF r.resultType = "video" THEN "videos" ELSE r.resultType

\* What performWebSearch returns for query when the provider answers 200
\* with the body at hand.
TextFor(query) ==
    CatchAll(query,
             AfterFetch(query,
                        fetchBraveSearchResults(Resp("http", 200, "object", nData),
                                                nCount))).text

\* C26: with a well-formed hint every result output comes from a section
\* some directive names, however short the output is; with the empty hint
\* there is no result and performWebSearch returns the "No results found"
\* text, whatever the sections hold.
C26_UnnamedSectionsDropped ==
    nOut.done /\ nData.mixed.tag = "array"
        => /\ \A i \in DOMAIN nOut.results :
                \E d \in DirectivesOfHint : d.type = SectionOf(nOut.results[i])
           /\ nData.mixed.items = <<>>
                => /\ nOut.results = <<>>
                   /\ \A query \in Queries : TextFor(query) = NoResultsText(query)

\* The empty hint with all three sections non-empty.
C26_Witness ==
    /\ nOut.done
    /\ nData.mixed = Sec("array", <<>>)
    /\ Len(webResults(nData)) > 0
    /\ Len(newsResults(nData)) > 0
    /\ Len(videoResults(nData)) > 0
    /\ nOut.results = <<>>
    /\ Len(nOut.results) < nCount

=============================================================================
